---- MODULE Spec2Model ----
(***************************************************************************)
(* The investment ledger of streamlit_investment_tracker.py as a state     *)
(* machine.  The script is run top to bottom once per widget event; a      *)
(* st.rerun() abandons the run and starts the next one with every button   *)
(* trigger reset.  The session state (transactions, serial_counter,        *)
(* message) and the file-uploader value survive from run to run.           *)
(***************************************************************************)
EXTENDS Integers, Sequences, FiniteSets, TLC

\* ------------------------------------------------------------------ bounds
\* Adds accepted per session (also the range of the created_at clock).
MaxAdds == 2

\* Files handed to the uploader per session.
MaxUploads == 1

\* Python's None / an absent widget value: the empty sequence; a present
\* value v is <<v>>.
None == <<>>

Some(v) == <<v>>

\* ------------------------------------------------------- the form's inputs
\* st.date_input values (datetime.date objects)
DateJan20 == [year |-> 2024, month |-> 1, day |-> 20]

DateFeb01 == [year |-> 2024, month |-> 2, day |-> 1]

\* What the form can submit: <<date, purpose, amount>>.  A purpose is the
\* sequence of its characters ("K", " ", ""); st.number_input(min_value=0.0)
\* lets no negative amount through.
FormInputs ==
    { <<DateJan20, <<"K">>, 1>>,
      <<DateFeb01, <<" ">>, 2>>,
      <<DateJan20, <<>>, 1>>,
      <<DateFeb01, <<"K">>, 0>> }

\* -------------------------------------------------------------- conversions
\* date.strftime('%Y-%m-%d'): the stored string, as its three fields
StrftimeDate(d) == <<d.year, d.month, d.day>>

\* pd.to_datetime of a 'YYYY-MM-DD' string: a totally ordered timestamp
ToDatetime(s) == s[1] * 10000 + s[2] * 100 + s[3]

\* Timestamp.strftime('%Y-%m-%d')
StrftimeTs(ts) == <<ts \div 10000, (ts \div 100) % 100, ts % 100>>

\* Python truthiness of a str or a list: non-empty (a str is not stripped)
Truthy(s) == Len(s) > 0

\* ------------------------------------------------------------------- JSON
\* A JSON object is the sequence of its <<key, value>> members, in order.
TxKeys == <<"serial", "date", "purpose", "amount", "created_at">>

\* json.dumps of one transaction dict: its keys in insertion order
DumpsObj(t) ==
    LET ks == SelectSeq(TxKeys, LAMBDA k : k \in DOMAIN t)
    IN  [i \in 1..Len(ks) |-> <<ks[i], t[ks[i]]>>]

\* the dict built by the export handler, dumped
ExportJson(txs, counter, stamp) ==
    << <<"transactions", [i \in 1..Len(txs) |-> DumpsObj(txs[i])]>>,
       <<"serial_counter", counter>>,
       <<"export_date", stamp>> >>

Keys(ms) == { ms[i][1] : i \in DOMAIN ms }

\* a repeated key keeps its last value, as json.load does
Lookup(ms, k) ==
    LET i == CHOOSE n \in DOMAIN ms :
                 /\ ms[n][1] = k
                 /\ \A j \in DOMAIN ms : ms[j][1] = k => j <= n
    IN  ms[i][2]

LoadsObj(ms) == [k \in Keys(ms) |-> Lookup(ms, k)]

\* json.load of a snapshot document
LoadsDoc(ms) ==
    LET d == LoadsObj(ms)
    IN  [k \in DOMAIN d |->
            IF k = "transactions"
            THEN [i \in 1..Len(d[k]) |-> LoadsObj(d[k][i])]
            ELSE d[k]]

\* line 101
ImportedTransactions(data) == data["transactions"]

\* a slip: the snapshot's own counter is ignored
ImportedCounterFallbackOnly(data) == Len(data["transactions"]) + 1

\* line 102
ImportedCounter(data) ==
    IF "serial_counter" \in DOMAIN data
    THEN data["serial_counter"]
    ELSE Len(data["transactions"]) + 1

\* --------------------------------------------------------------- snapshots
Tx(s, d, p, a, c) ==
    [serial |-> s, date |-> d, purpose |-> p, amount |-> a, created_at |-> c]

Doc(ms) == [ok |-> TRUE, members |-> ms]

\* Files a user may hand to the uploader besides a downloaded backup.
\* Not JSON at all: json.load raises.
FileGarbage == [ok |-> FALSE, members |-> <<>>]

\* JSON without a 'transactions' key
FileNoTransactions == Doc(<< <<"serial_counter", 2>> >>)

\* no 'serial_counter': the len(transactions) + 1 fallback applies
FileNoCounter ==
    Doc(<< <<"transactions",
             << DumpsObj(Tx(2, <<2024, 1, 5>>, <<"K">>, 1, 0)) >> >> >>)

\* two transactions with the same serial
FileDuplicate ==
    Doc(ExportJson(<< Tx(1, <<2024, 1, 5>>, <<"K">>, 1, 0),
                      Tx(1, <<2024, 2, 1>>, <<"K">>, 2, 0) >>, 2, 0))

\* serial_counter below a contained serial
FileLowCounter ==
    Doc(ExportJson(<< Tx(2, <<2024, 1, 5>>, <<"K">>, 1, 0) >>, 1, 0))

\* a non-positive amount and an empty purpose
FileBadFields ==
    Doc(ExportJson(<< Tx(1, <<2024, 1, 5>>, <<>>, 0, 0) >>, 2, 0))

\* a well-formed snapshot of the empty ledger
FileEmptyLedger == Doc(ExportJson(<<>>, 1, 0))

SampleFiles ==
    { FileGarbage, FileNoTransactions, FileNoCounter, FileDuplicate,
      FileLowCounter, FileBadFields, FileEmptyLedger }

\* ------------------------------------------------------------------ state
VARIABLES
    transactions,    \* st.session_state.transactions
    serial_counter,  \* st.session_state.serial_counter
    message,         \* st.session_state.message
    uploaded_file,   \* value of the file_uploader widget (None or <<file>>)
    clicked,         \* the widget event that triggered the current run
    pc,              \* position of the current script run ("idle": finished)
    summary,         \* the run's summary statistics, once computed
    json_str,        \* data behind the download button of this run, if any
    confirm_shown,   \* the 'Confirm Clear' button is on the page
    backup,          \* the backup file the user saved from a download
    now,             \* clock read by datetime.now()
    last,            \* history: the last widget event, or what a handler did since
    backup_of,       \* history: the ledger the saved backup was exported from
    uploads,         \* history: files handed to the uploader so far
    max_added,       \* history: highest serial add handed out this session
    max_since,       \* history: the same, since the last import or clear
    applied          \* history: times the selected upload was applied (<= 2)

ledger == <<transactions, serial_counter>>

\* what a run that changes nothing but its own position leaves alone
session == <<transactions, serial_counter, message>>

page == <<json_str, confirm_shown>>

user == <<uploaded_file, backup, uploads>>

history == <<backup_of, max_added, max_since, applied>>

vars ==
    <<transactions, serial_counter, message, uploaded_file, clicked, pc,
      summary, json_str, confirm_shown, backup, now, last, backup_of,
      uploads, max_added, max_since, applied>>

\* ---------------------------------------------------------------- summary
RECURSIVE ColumnSum(_)
\* df['amount'].sum()
ColumnSum(col) ==
    IF col = <<>> THEN 0 ELSE col[1] + ColumnSum(Tail(col))

\* a slip: the date of the row stored last instead of the latest date
ColumnLast(col) == col[Len(col)]

RECURSIVE ColumnMax(_)
\* df['date'].max() over a non-empty column of timestamps
ColumnMax(col) ==
    IF Len(col) = 1 THEN col[1]
    ELSE LET m == ColumnMax(Tail(col))
         IN  IF col[1] >= m THEN col[1] ELSE m

\* a quotient kept exact: df['amount'].mean() is sum / count
Quotient(n, d) == [num |-> n, den |-> d]

Column(txs, key) == [i \in 1..Len(txs) |-> txs[i][key]]

\* lines 126-137
Summary(txs) ==
    IF Truthy(txs)
    THEN [total_amount |-> ColumnSum(Column(txs, "amount")),
          total_transactions |-> Len(txs),
          avg_amount |-> Quotient(ColumnSum(Column(txs, "amount")), Len(txs)),
          last_transaction_date |->
              StrftimeTs(ColumnMax([i \in 1..Len(txs) |->
                                       ToDatetime(txs[i].date)]))]
    ELSE [total_amount |-> 0,
          total_transactions |-> 0,
          avg_amount |-> Quotient(0, 1),
          last_transaction_date |-> <<"N/A">>]

\* ------------------------------------------------------------------- Init
\* lines 58-63, before any widget event
Init ==
    /\ transactions = <<>>
    /\ serial_counter = 1
    /\ message = None
    /\ uploaded_file = None
    /\ clicked = None
    /\ pc = "export"
    /\ summary = None
    /\ json_str = None
    /\ confirm_shown = FALSE
    /\ backup = None
    /\ now = 0
    /\ last = "start"
    /\ backup_of = None
    /\ uploads = 0
    /\ max_added = None
    /\ max_since = None
    /\ applied = 0

\* ------------------------------------------------------------ script run
ClickedIs(name) == clicked # None /\ clicked[1] = name

\* st.rerun(): the run is abandoned and the script starts again from the
\* top, its locals gone and every button trigger reset
Rerun ==
    /\ pc' = "export"
    /\ clicked' = None
    /\ summary' = None

\* the highest value seen so far, None before the first
RaisedTo(seen, v) ==
    IF seen = None \/ seen[1] < v THEN Some(v) ELSE seen

\* lines 79-93: the data of the download button, if one is shown
ExportData(txs, counter, stamp) ==
    IF Truthy(txs) THEN Some(ExportJson(txs, counter, stamp)) ELSE None

\* lines 78-93, 'Export Data (JSON)'
ExportBlock ==
    /\ pc = "export"
    /\ IF ClickedIs("export")
       THEN /\ json_str' = ExportData(transactions, serial_counter, now)
            /\ last' = "exported"
       ELSE /\ json_str' = None
            /\ UNCHANGED last
    /\ pc' = "import"
    /\ UNCHANGED <<session, clicked, summary, confirm_shown, user, now,
                   history>>

\* lines 97-100: a file is selected, parses, and has a 'transactions' key
Importable(file) ==
    /\ file # None
    /\ file[1].ok
    /\ "transactions" \in DOMAIN LoadsDoc(file[1].members)

\* lines 96-106, 'Import Backup'.  The rerun starts the next run with the
\* same file still selected.
ImportBlock ==
    /\ pc = "import"
    /\ IF Importable(uploaded_file)
       THEN LET data == LoadsDoc(uploaded_file[1].members)
            IN  /\ transactions' = ImportedTransactions(data)
                /\ serial_counter' = ImportedCounter(data)
                /\ message' =
                       Some(<<"success", "imported",
                              Len(ImportedTransactions(data))>>)
                /\ Rerun
                /\ last' = "imported"
                /\ max_since' = None
                /\ applied' = IF applied < 2 THEN applied + 1 ELSE 2
                /\ UNCHANGED <<page, user, now, backup_of, max_added>>
       ELSE /\ pc' = "clear"
            /\ UNCHANGED <<session, clicked, summary, page, user, now, last,
                           history>>

\* lines 109-114, 'Clear All Data' with the nested 'Confirm Clear' button:
\* the inner button is created only in a run where the outer one is pressed
ClearBlock ==
    /\ pc = "clear"
    /\ IF ClickedIs("clear")
       THEN IF ClickedIs("confirm")
            THEN /\ transactions' = <<>>
                 /\ serial_counter' = 1
                 /\ message' = Some(<<"success", "cleared">>)
                 /\ Rerun
                 /\ last' = "cleared"
                 /\ max_since' = None
                 /\ UNCHANGED confirm_shown
            ELSE /\ confirm_shown' = TRUE
                 /\ pc' = "message"
                 /\ UNCHANGED <<session, clicked, summary, last, max_since>>
       ELSE /\ confirm_shown' = FALSE
            /\ pc' = "message"
            /\ UNCHANGED <<session, clicked, summary, last, max_since>>
    /\ UNCHANGED <<json_str, user, now, backup_of, max_added, applied>>

\* lines 117-123
MessageBlock ==
    /\ pc = "message"
    /\ message' = None
    /\ pc' = "summary"
    /\ UNCHANGED <<transactions, serial_counter, clicked, summary, page,
                   user, now, last, history>>

\* lines 126-137
SummaryBlock ==
    /\ pc = "summary"
    /\ summary' = Some(Summary(transactions))
    /\ pc' = "form"
    /\ UNCHANGED <<session, clicked, page, user, now, last, history>>

\* line 222: the form's validity test
FormValid(purpose, amount) == Truthy(purpose) /\ amount > 0

\* lines 223-229
NewTransaction(counter, transaction_date, purpose, amount, stamp) ==
    Tx(counter, StrftimeDate(transaction_date), purpose, amount, stamp)

\* a slip: the counter is not advanced after an add
NoIncrement(counter) == counter

\* line 232
NextCounter(counter) == counter + 1

\* lines 221-237, the add_transaction form; clicked carries the submitted
\* <<"submit", date, purpose, amount>>
FormBlock ==
    /\ pc = "form"
    /\ IF ClickedIs("submit")
       THEN /\ IF FormValid(clicked[3], clicked[4])
               THEN /\ transactions' =
                          Append(transactions,
                                 NewTransaction(serial_counter, clicked[2],
                                                clicked[3], clicked[4], now))
                    /\ serial_counter' = NextCounter(serial_counter)
                    /\ message' = Some(<<"success", "added">>)
                    /\ now' = now + 1
                    /\ last' = "added"
                    /\ max_added' = RaisedTo(max_added, serial_counter)
                    /\ max_since' = RaisedTo(max_since, serial_counter)
               ELSE /\ message' = Some(<<"error", "invalid">>)
                    /\ last' = "rejected"
                    /\ UNCHANGED <<transactions, serial_counter, now,
                                   max_added, max_since>>
            /\ Rerun
       ELSE /\ pc' = "rows"
            /\ UNCHANGED <<session, clicked, summary, now, last, max_added,
                           max_since>>
    /\ UNCHANGED <<page, user, backup_of, applied>>

\* lines 265-268: keep the transactions whose serial differs from the row's
WithoutSerial(txs, serial) == SelectSeq(txs, LAMBDA t : t.serial # serial)

\* lines 242-270: the table rows and their delete buttons (key delete_{idx},
\* idx the row's position in the list); without a pressed button the run
\* reaches the end of the script
RowsBlock ==
    /\ pc = "rows"
    /\ IF /\ Truthy(transactions)
          /\ ClickedIs("delete")
          /\ clicked[2] \in 0..(Len(transactions) - 1)
       THEN /\ transactions' =
                  WithoutSerial(transactions,
                                transactions[clicked[2] + 1].serial)
            /\ message' = Some(<<"success", "deleted">>)
            /\ Rerun
            /\ last' = "deleted"
       ELSE /\ pc' = "idle"
            /\ clicked' = None
            /\ UNCHANGED <<transactions, message, summary, last>>
    /\ UNCHANGED <<serial_counter, page, user, now, history>>

\* ------------------------------------------------------------ user events
\* A widget event starts a run from the top with that trigger set.
NewRun(event) ==
    /\ pc' = "export"
    /\ clicked' = event
    /\ summary' = None
    /\ last' = event[1]

ClickExport ==
    /\ pc = "idle"
    /\ NewRun(<<"export">>)
    /\ UNCHANGED <<session, page, user, now, history>>

\* the download button exists only on a page rendered by an export run; the
\* browser saves its data and the click starts a run like any other
ClickDownload ==
    /\ pc = "idle"
    /\ json_str # None
    /\ backup' = json_str
    /\ backup_of' = Some(ledger)
    /\ NewRun(<<"download">>)
    /\ UNCHANGED <<session, page, uploaded_file, uploads, now, max_added,
                   max_since, applied>>

ClickClear ==
    /\ pc = "idle"
    /\ NewRun(<<"clear">>)
    /\ UNCHANGED <<session, page, user, now, history>>

ClickConfirm ==
    /\ pc = "idle"
    /\ confirm_shown
    /\ NewRun(<<"confirm">>)
    /\ UNCHANGED <<session, page, user, now, history>>

SubmitForm ==
    /\ pc = "idle"
    /\ now < MaxAdds
    /\ \E in \in FormInputs : NewRun(<<"submit", in[1], in[2], in[3]>>)
    /\ UNCHANGED <<session, page, user, now, history>>

ClickDelete ==
    /\ pc = "idle"
    /\ \E idx \in 0..(Len(transactions) - 1) : NewRun(<<"delete", idx>>)
    /\ UNCHANGED <<session, page, user, now, history>>

\* a sample file, or the backup saved earlier
UploadFile ==
    /\ pc = "idle"
    /\ uploaded_file = None
    /\ uploads < MaxUploads
    /\ \E f \in SampleFiles \cup { Doc(backup[i]) : i \in DOMAIN backup } :
           uploaded_file' = Some(f)
    /\ uploads' = uploads + 1
    /\ applied' = 0
    /\ NewRun(<<"upload">>)
    /\ UNCHANGED <<session, page, backup, now, backup_of, max_added,
                   max_since>>

\* removing the file is a widget event too; it interrupts a running script
RemoveFile ==
    /\ uploaded_file # None
    /\ uploaded_file' = None
    /\ applied' = 0
    /\ NewRun(<<"remove">>)
    /\ UNCHANGED <<session, page, backup, uploads, now, backup_of,
                   max_added, max_since>>

Next ==
    \/ ExportBlock
    \/ ImportBlock
    \/ ClearBlock
    \/ MessageBlock
    \/ SummaryBlock
    \/ FormBlock
    \/ RowsBlock
    \/ ClickExport
    \/ ClickDownload
    \/ ClickClear
    \/ ClickConfirm
    \/ SubmitForm
    \/ ClickDelete
    \/ UploadFile
    \/ RemoveFile

Spec == Init /\ [][Next]_vars

\* ----------------------------------------------------------------- claims
\* str.strip() restricted to blanks, for the claims that speak of trimming
RECURSIVE Trim(_)
Trim(s) ==
    IF s = <<>> THEN s
    ELSE IF Head(s) = " " THEN Trim(Tail(s))
    ELSE IF s[Len(s)] = " " THEN Trim(SubSeq(s, 1, Len(s) - 1))
    ELSE s

\* the sequence without its k-th element
Without(seq, k) == SubSeq(seq, 1, k - 1) \o SubSeq(seq, k + 1, Len(seq))

\* C1: no two transactions of the current collection have the same serial.
C1_SerialsUnique ==
    \A i, j \in DOMAIN transactions :
        i # j => transactions[i].serial # transactions[j].serial

\* C2 as stated: serial_counter is above the serial of every transaction
\* ever added in the session.
C2_CounterAboveEverAdded ==
    max_added # None => serial_counter > max_added[1]

\* C2 amended: serial_counter is above the serial of every transaction
\* added since the most recent import or clear (since the start of the
\* session when there was none).
C2_CounterAboveAddedSinceReset ==
    max_since # None => serial_counter > max_since[1]

\* an add made after an import: an imported sample row, then an added one
C2_AddAfterImport ==
    /\ last = "added"
    /\ max_since # None
    /\ Len(transactions) >= 2
    /\ transactions[1].date = <<2024, 1, 5>>
    /\ transactions[Len(transactions)].serial = max_since[1]

\* C3: a valid add appends exactly one transaction, whose serial is the
\* old serial_counter and is carried by no stored transaction, keeps the
\* stored ones, and advances serial_counter by one.
C3_AddAppendsFreshSerial ==
    [][(FormBlock /\ ClickedIs("submit") /\ clicked[3] # <<>>
            /\ clicked[4] > 0)
        => /\ Len(transactions') = Len(transactions) + 1
           /\ SubSeq(transactions', 1, Len(transactions)) = transactions
           /\ transactions'[Len(transactions')].serial = serial_counter
           /\ \A i \in DOMAIN transactions :
                  transactions[i].serial # serial_counter
           /\ serial_counter' = serial_counter + 1]_vars

\* C4: an add with amount <= 0 or a purpose empty after trimming changes
\* neither transactions nor serial_counter.
C4_InvalidAddRejected ==
    [][(FormBlock /\ ClickedIs("submit")
            /\ (clicked[4] <= 0 \/ Trim(clicked[3]) = <<>>))
        => UNCHANGED ledger]_vars

\* C5: deleting a present serial removes exactly one record and keeps the
\* others in order, deleting it again changes nothing, and serial_counter
\* stays as it was.
C5_DeleteRemovesExactlyOne ==
    [][(RowsBlock /\ last' = "deleted")
        => /\ \E k \in DOMAIN transactions :
                  transactions' = Without(transactions, k)
           /\ WithoutSerial(transactions',
                            transactions[clicked[2] + 1].serial)
                  = transactions'
           /\ serial_counter' = serial_counter]_vars

\* the snapshots C6 wants refused
SnapshotInvalid(data) ==
    LET txs == data["transactions"]
    IN  \/ /\ "serial_counter" \in DOMAIN data
           /\ \E i \in DOMAIN txs : data["serial_counter"] <= txs[i].serial
        \/ \E i, j \in DOMAIN txs : i # j /\ txs[i].serial = txs[j].serial
        \/ \E i \in DOMAIN txs : txs[i].amount <= 0
        \/ \E i \in DOMAIN txs : Trim(txs[i].purpose) = <<>>

\* C6: importing an invalid snapshot leaves transactions and
\* serial_counter as they were.
C6_InvalidImportRejected ==
    [][(ImportBlock /\ Importable(uploaded_file)
            /\ SnapshotInvalid(LoadsDoc(uploaded_file[1].members)))
        => UNCHANGED ledger]_vars

\* the ledger an import of the JSON text js leaves behind
Restored(js) ==
    <<ImportedTransactions(LoadsDoc(js)), ImportedCounter(LoadsDoc(js))>>

\* the selected file is the saved backup and has just been imported
BackupImported ==
    /\ last = "imported"
    /\ backup # None
    /\ uploaded_file = Some(Doc(backup[1]))

\* C7 as stated: from every ledger state export yields a snapshot whose
\* import gives back exactly that state.
C7_ExportImportRoundTrip ==
    /\ (last = "exported" /\ pc = "import")
           => /\ json_str # None
              /\ Importable(Some(Doc(json_str[1])))
              /\ Restored(json_str[1]) = ledger
    /\ BackupImported => ledger = backup_of[1]

\* C7 amended: from every ledger state with at least one transaction
\* export yields a snapshot whose import, into any ledger, gives back
\* exactly that state; from a ledger without transactions export yields no
\* snapshot.
C7_NonEmptyExportImportRoundTrip ==
    /\ (last = "exported" /\ pc = "import")
           => IF transactions # <<>>
              THEN /\ json_str # None
                   /\ Importable(Some(Doc(json_str[1])))
                   /\ Restored(json_str[1]) = ledger
              ELSE json_str = None
    /\ BackupImported => ledger = backup_of[1]

\* a backup imported over a ledger that had moved on since the export: an
\* add made after it had been handed the restored counter or more
C7_BackupRestoredOverLaterAdd ==
    /\ BackupImported
    /\ ledger = backup_of[1]
    /\ transactions # <<>>
    /\ max_added # None
    /\ max_added[1] >= serial_counter

\* C8: once the run started by 'Confirm Clear' has finished, the ledger is
\* empty and serial_counter is 1.
C8_ConfirmClearEmptiesLedger ==
    (pc = "idle" /\ last \in {"confirm", "cleared"})
        => transactions = <<>> /\ serial_counter = 1

RECURSIVE SumOfAmounts(_, _)
\* the sum of the first n amounts
SumOfAmounts(txs, n) ==
    IF n = 0 THEN 0 ELSE SumOfAmounts(txs, n - 1) + txs[n].amount

\* calendar order of two 'YYYY-MM-DD' dates
DateLeq(a, b) ==
    \/ a[1] < b[1]
    \/ a[1] = b[1] /\ a[2] < b[2]
    \/ a[1] = b[1] /\ a[2] = b[2] /\ a[3] <= b[3]

\* what C9 asks of a summary s of the transactions txs
IsSummaryOf(s, txs) ==
    /\ s.total_transactions = Len(txs)
    /\ s.total_amount = SumOfAmounts(txs, Len(txs))
    /\ IF Len(txs) > 0
       THEN /\ s.avg_amount.den # 0
            /\ s.avg_amount.num * Len(txs) = s.total_amount * s.avg_amount.den
            /\ \E i \in DOMAIN txs : s.last_transaction_date = txs[i].date
            /\ \A i \in DOMAIN txs :
                   DateLeq(txs[i].date, s.last_transaction_date)
       ELSE /\ s.total_amount = 0
            /\ s.avg_amount.den # 0
            /\ s.avg_amount.num = 0
            /\ s.last_transaction_date = <<"N/A">>

\* C9: the summary is the count, the sum, the sum over the count and the
\* latest date of the transactions (0, 0, 0 and N/A on the empty ledger),
\* and computing it changes neither transactions nor serial_counter.
C9_SummaryOfTransactions ==
    /\ [](summary # None => IsSummaryOf(summary[1], transactions))
    /\ [][SummaryBlock
            => /\ UNCHANGED ledger
               /\ IsSummaryOf(summary'[1], transactions)]_vars

\* a summary of two transactions stored latest date first, amounts apart
C9_SummaryOfTwoOutOfOrder ==
    /\ summary # None
    /\ Len(transactions) = 2
    /\ ~ DateLeq(transactions[1].date, transactions[2].date)
    /\ transactions[1].amount # transactions[2].amount
    /\ summary[1].last_transaction_date = transactions[1].date

\* C10: one uploaded snapshot is applied to the ledger once.
C10_SnapshotAppliedOnce == applied <= 1

====
